---- MODULE Spec2Model ----
(***************************************************************************)
(* The SimilarityModel adapter of the semantic-similarity tutorial         *)
(* (a PythonModel with load_context and predict) and the linear cell       *)
(* scripts of the three tutorial notebooks.                                *)
(*                                                                         *)
(* Python values are modelled as sequences of strings whose head is the    *)
(* type tag: PyStr("a") is the str 'a', PyNone is None, an embedding is    *)
(* <<"ndarray", weights>> followed by the value encoded.  The external     *)
(* (sentence_transformers, util.cos_sim, the tracking client) are          *)
(* uninterpreted: a delegate call is recorded with its arguments and       *)
(* either yields a symbolic result or raises.                              *)
(***************************************************************************)
EXTENDS Integers, Sequences, FiniteSets, TLC

VARIABLES
    self,       \* the adapter instance's attributes (its __dict__)
    loads,      \* number of model objects built so far by SentenceTransformer.load
    last,       \* record of the most recent adapter call
    prev,       \* the predict call before it (kept in SpecPair only)
    nb,         \* the notebook being run
    pc,         \* number of that notebook's calls already executed
    env,        \* the notebook's namespace: the variables bound so far
    tracking,   \* the tracking client's state: experiment and active run
    trace,      \* the calls the notebook has made so far
    halted      \* TRUE once a call of the notebook has raised

vars == <<self, loads, last, prev, nb, pc, env, tracking, trace, halted>>

adapterVars == <<self, loads, last, prev>>
notebookVars == <<nb, pc, env, tracking, trace, halted>>

(***************************************************************************)
(* Bounds                                                                  *)
(***************************************************************************)
MaxCols == 3    \* DataFrames have 0..MaxCols columns
MaxRows == 2    \* DataFrames have 0..MaxRows rows
MaxLoads == 2   \* at most MaxLoads successful loads in one behaviour

(***************************************************************************)
(* Python values                                                           *)
(***************************************************************************)
PyNone == <<"NoneType">>
PyStr(s) == <<"str", s>>

Sentences == {"a", "b"}
Cells == {PyStr(s) : s \in Sentences} \cup {PyNone}
TailCell == PyStr("z")



SeqsOfLen(S, n) == [1..n -> S]



(***************************************************************************)
(* model_input values: pandas DataFrames, dicts and other objects          *)
(***************************************************************************)
ColumnNames == <<"sentence_1", "sentence_2", "extra", "more", "other">>

Headers(nc) ==
    IF nc = 2
    THEN {<<"sentence_1", "sentence_2">>, <<"sentence_2", "sentence_1">>,
          <<"extra", "more">>}
    ELSE {[i \in 1..nc |-> ColumnNames[i]]}

DataFrame(columns, rows) ==
    [type |-> "DataFrame", columns |-> columns, rows |-> rows, items |-> {}]

\* Row 0 of a frame: every combination of cell values for a two-column
\* frame; the same cell value in every column for the other widths, whose
\* cells the adapter never reads.
FirstRows(nc) ==
    IF nc = 2
    THEN SeqsOfLen(Cells, nc)
    ELSE {[j \in 1..nc |-> c] : c \in Cells}

\* Frames with nc columns and nr rows; the rows after row 0 hold TailCell in
\* every column.
DataFrames(nc, nr) ==
    IF nr = 0
    THEN {DataFrame(h, << >>) : h \in Headers(nc)}
    ELSE {DataFrame(h, <<r0>> \o [i \in 1..(nr - 1) |-> [j \in 1..nc |-> TailCell]]) :
             h \in Headers(nc), r0 \in FirstRows(nc)}

AllDataFrames == UNION {DataFrames(nc, nr) : nc \in 0..MaxCols, nr \in 0..MaxRows}

Dict(items) ==
    [type |-> "dict", columns |-> << >>, rows |-> << >>, items |-> items]

DictValues == Cells \cup {PyStr("")}

Entry(key, choice) == IF choice = <<"absent">> THEN {} ELSE {<<key, choice>>}

AllDicts ==
    {Dict(Entry("sentence_1", c1) \cup Entry("sentence_2", c2) \cup e) :
        c1 \in DictValues \cup {<<"absent">>},
        c2 \in DictValues \cup {<<"absent">>},
        e \in {{}, {<<"extra", PyStr("x")>>}}}

Other(t) == [type |-> t, columns |-> << >>, rows |-> << >>, items |-> {}]

OtherInputs == {Other("list"), Other("str"), Other("NoneType")}

Inputs == AllDataFrames \cup AllDicts \cup OtherInputs

\* The context and params arguments of predict.  The pyfunc wrapper passes
\* the model's context and, when the caller gives no params, None.
PyfuncContext == "PythonModelContext"
NoParams == "None"
\* The same call as a direct caller may make it: no context, some params.
PredictArgs == {<<PyfuncContext, NoParams>>, <<"None", "{'batch_size': 8}">>}

(***************************************************************************)
(* Errors, outcomes and delegate-call records                              *)
(***************************************************************************)
Raise(type, msg) == [type |-> type, msg |-> msg]
NoError == Raise("", "")

NoValue == [type |-> "", dtype |-> "", shape |-> << >>, data |-> << >>]

Returned(value) == [kind |-> "return", value |-> value, error |-> NoError]
Raised(error) == [kind |-> "raise", value |-> NoValue, error |-> error]

\* One call into an external library: the function, the weights of the model
\* object it is called on ("" for a module-level function), the arguments,
\* whether the call returned, and the data it returned (<< >> when it raised).
Call(fn, on, args, ok, result) ==
    [fn |-> fn, on |-> on, args |-> args, ok |-> ok,
     result |-> IF ok THEN result ELSE << >>]

\* str(e): a KeyError prints the repr of its key, the others their message.
Str(e) == IF e.type = "KeyError" THEN "'" \o e.msg \o "'" ELSE e.msg

\* dict.get(key): the value under key, None when the key is absent.
Get(items, key) ==
    IF \E p \in items : p[1] = key
    THEN (CHOOSE p \in items : p[1] = key)[2]
    ELSE PyNone

\* Attribute assignment and lookup on an object's __dict__.
SetAttr(obj, name, value) ==
    [a \in (DOMAIN obj) \cup {name} |-> IF a = name THEN value ELSE obj[a]]
HasAttr(obj, name) == name \in DOMAIN obj

(***************************************************************************)
(* The artifact store and SentenceTransformer.load                         *)
(***************************************************************************)
GoodPaths == {"/tmp/sbert_model", "/tmp/other_model"}
BadPaths == {"/tmp/missing", "/tmp/not_a_model"}
Paths == GoodPaths \cup BadPaths

\* The weights saved under a path (model.save(model_directory)).
Weights(path) ==
    IF path = "/tmp/sbert_model" THEN "all-MiniLM-L6-v2" ELSE "other-weights"

\* What the library may raise when the artifact is missing or incompatible.
LibraryErrors ==
    {Raise("OSError", "no such directory"),
     Raise("RuntimeError", "incompatible artifact")}

\* The context argument of load_context.
Context(artifacts) == [type |-> "PythonModelContext", artifacts |-> artifacts]
NoneContext == [type |-> "NoneType", artifacts |-> {}]

LoadContexts ==
    {Context({<<"model_path", p>>}) : p \in Paths}
        \cup {Context({}), Context({<<"tokenizer_path", "/tmp/sbert_model">>}), NoneContext}

\* Handle with the saved weights taken by the first load only.
Handle_fresh(path, n) ==
    [path |-> path, weights |-> IF n = 1 THEN Weights(path) ELSE "untrained", id |-> n]

\* The model object built by the n-th successful load.
Handle(path, n) == [path |-> path, weights |-> Weights(path), id |-> n]

\* SentenceTransformer.load(path): the call made and what it yields.
SentenceTransformerLoad(path, libError, n) ==
    IF path \in GoodPaths
    THEN [calls |-> <<Call("SentenceTransformer.load", "", <<path>>, TRUE, <<Weights(path)>>)>>,
          ok |-> TRUE, handle |-> Handle(path, n), error |-> NoError]
    ELSE [calls |-> <<Call("SentenceTransformer.load", "", <<path>>, FALSE, << >>)>>,
          ok |-> FALSE, handle |-> Handle("", 0), error |-> libError]

\* The body of the try block: context.artifacts["model_path"], then the load.
TryLoad(context, libError, n) ==
    IF context.type = "NoneType"
    THEN [calls |-> << >>, ok |-> FALSE, handle |-> Handle("", 0),
          error |-> Raise("AttributeError",
                          "'NoneType' object has no attribute 'artifacts'")]
    ELSE IF ~ \E p \in context.artifacts : p[1] = "model_path"
    THEN [calls |-> << >>, ok |-> FALSE, handle |-> Handle("", 0),
          error |-> Raise("KeyError", "model_path")]
    ELSE SentenceTransformerLoad(Get(context.artifacts, "model_path"), libError, n)

\* An except clause that wraps only OSError and lets the others through.
WrapLoadError_narrow(e) ==
    IF e.type = "OSError"
    THEN Raise("ValueError", "Error loading model: " \o Str(e))
    ELSE e

\* The except clause: every Exception is re-raised as a ValueError whose
\* message embeds str(e).
WrapLoadError(e) == Raise("ValueError", "Error loading model: " \o Str(e))

\* LoadContextRun with an except clause that resets the handle
\* (self.model = None) before it re-raises.
LoadContextRun_clearing(slf, context, libError, n) ==
    LET try == TryLoad(context, libError, n)
    IN  IF try.ok
        THEN [self |-> SetAttr(slf, "model", try.handle), calls |-> try.calls,
              caught |-> NoError, outcome |-> Returned(NoValue)]
        ELSE [self |-> SetAttr(slf, "model", Handle("", 0)), calls |-> try.calls,
              caught |-> try.error, outcome |-> Raised(WrapLoadError(try.error))]

\* load_context as a function of the adapter and its arguments: the adapter
\* afterwards, the library calls made, the exception the except clause
\* caught (NoError when none) and the outcome.  The import that opens the
\* method repeats the import at the top of the cell that defines the class,
\* so it finds the module already loaded and does nothing here.
LoadContextRun(slf, context, libError, n) ==
    LET try == TryLoad(context, libError, n)
    IN  IF try.ok
        THEN [self |-> SetAttr(slf, "model", try.handle), calls |-> try.calls,
              caught |-> NoError, outcome |-> Returned(NoValue)]
        ELSE [self |-> slf, calls |-> try.calls,
              caught |-> try.error, outcome |-> Raised(WrapLoadError(try.error))]

(***************************************************************************)
(* predict                                                                 *)
(***************************************************************************)
TwoColumnsMsg == "DataFrame input must have exactly two columns."
BothSentencesMsg ==
    "Both 'sentence_1' and 'sentence_2' must be provided in the input dictionary."

\* f"{type(model_input)}"
TypeRepr(model_input) == "<class '" \o model_input.type \o "'>"

UnexpectedTypeMsg(model_input) ==
    "Unexpected type for model_input: " \o TypeRepr(model_input)
        \o ". Must be either a Dict or a DataFrame."

Extracted(s1, s2) == [ok |-> TRUE, sentence_1 |-> s1, sentence_2 |-> s2, error |-> NoError]
Rejected(error) == [ok |-> FALSE, sentence_1 |-> PyNone, sentence_2 |-> PyNone, error |-> error]

\* model_input.iloc[0, j] on a frame that has passed the column check.
Iloc0(model_input, j) == model_input.rows[1][j]

\* FromDataFrame with the two cells taken in the opposite order.
FromDataFrame_swapped(model_input) ==
    IF Len(model_input.columns) # 2
    THEN Rejected(Raise("ValueError", TwoColumnsMsg))
    ELSE IF Len(model_input.rows) = 0
    THEN Rejected(Raise("IndexError", "single positional indexer is out-of-bounds"))
    ELSE Extracted(Iloc0(model_input, 2), Iloc0(model_input, 1))

\* FromDataFrame rejecting only frames with fewer than two columns.
FromDataFrame_atleast2(model_input) ==
    IF Len(model_input.columns) < 2
    THEN Rejected(Raise("ValueError", TwoColumnsMsg))
    ELSE IF Len(model_input.rows) = 0
    THEN Rejected(Raise("IndexError", "single positional indexer is out-of-bounds"))
    ELSE Extracted(Iloc0(model_input, 1), Iloc0(model_input, 2))

\* FromDataFrame reading the last row (iloc[-1, j]) instead of row 0.
FromDataFrame_lastrow(model_input) ==
    IF Len(model_input.columns) # 2
    THEN Rejected(Raise("ValueError", TwoColumnsMsg))
    ELSE IF Len(model_input.rows) = 0
    THEN Rejected(Raise("IndexError", "single positional indexer is out-of-bounds"))
    ELSE Extracted(model_input.rows[Len(model_input.rows)][1],
                   model_input.rows[Len(model_input.rows)][2])

\* FromDataFrame reading the two cells by column name
\* (model_input["sentence_1"][0]) instead of by position.
FromDataFrame_byname(model_input) ==
    LET named(name) == {j \in 1..Len(model_input.columns) : model_input.columns[j] = name}
    IN  IF Len(model_input.columns) # 2
        THEN Rejected(Raise("ValueError", TwoColumnsMsg))
        ELSE IF named("sentence_1") = {}
        THEN Rejected(Raise("KeyError", "sentence_1"))
        ELSE IF named("sentence_2") = {}
        THEN Rejected(Raise("KeyError", "sentence_2"))
        ELSE IF Len(model_input.rows) = 0
        THEN Rejected(Raise("KeyError", "0"))
        ELSE Extracted(model_input.rows[1][CHOOSE j \in named("sentence_1") : TRUE],
                       model_input.rows[1][CHOOSE j \in named("sentence_2") : TRUE])

\* FromDataFrame with a presence check on the two cells, as the dict branch
\* has one.
FromDataFrame_notnull(model_input) ==
    IF Len(model_input.columns) # 2
    THEN Rejected(Raise("ValueError", TwoColumnsMsg))
    ELSE IF Len(model_input.rows) = 0
    THEN Rejected(Raise("IndexError", "single positional indexer is out-of-bounds"))
    ELSE IF Iloc0(model_input, 1) = PyNone \/ Iloc0(model_input, 2) = PyNone
    THEN Rejected(Raise("ValueError", BothSentencesMsg))
    ELSE Extracted(Iloc0(model_input, 1), Iloc0(model_input, 2))

\* FromDataFrame rejecting a frame without rows itself (if model_input.empty).
FromDataFrame_emptycheck(model_input) ==
    IF Len(model_input.columns) # 2
    THEN Rejected(Raise("ValueError", TwoColumnsMsg))
    ELSE IF Len(model_input.rows) = 0
    THEN Rejected(Raise("ValueError", "DataFrame input must have at least one row."))
    ELSE Extracted(Iloc0(model_input, 1), Iloc0(model_input, 2))

\* The DataFrame branch: the column-count check, then row 0 by position.
\* iloc[0, j] raises IndexError on a frame without rows.
FromDataFrame(model_input) ==
    IF Len(model_input.columns) # 2
    THEN Rejected(Raise("ValueError", TwoColumnsMsg))
    ELSE IF Len(model_input.rows) = 0
    THEN Rejected(Raise("IndexError", "single positional indexer is out-of-bounds"))
    ELSE Extracted(Iloc0(model_input, 1), Iloc0(model_input, 2))

\* FromDict with the presence check left out.
FromDict_unchecked(model_input) ==
    Extracted(Get(model_input.items, "sentence_1"),
              Get(model_input.items, "sentence_2"))

\* FromDict reading 'sentence_1' for both sentences.
FromDict_samekey(model_input) ==
    LET sentence_1 == Get(model_input.items, "sentence_1")
        sentence_2 == Get(model_input.items, "sentence_1")
    IN  IF sentence_1 = PyNone \/ sentence_2 = PyNone
        THEN Rejected(Raise("ValueError", BothSentencesMsg))
        ELSE Extracted(sentence_1, sentence_2)

\* FromDict with a truthiness test (if not sentence_1 or not sentence_2),
\* which rejects the empty string as well.
FromDict_falsy(model_input) ==
    LET sentence_1 == Get(model_input.items, "sentence_1")
        sentence_2 == Get(model_input.items, "sentence_2")
        falsy(v) == v = PyNone \/ v = PyStr("")
    IN  IF falsy(sentence_1) \/ falsy(sentence_2)
        THEN Rejected(Raise("ValueError", BothSentencesMsg))
        ELSE Extracted(sentence_1, sentence_2)

\* The dict branch: the two values by key, then the presence check.
FromDict(model_input) ==
    LET sentence_1 == Get(model_input.items, "sentence_1")
        sentence_2 == Get(model_input.items, "sentence_2")
    IN  IF sentence_1 = PyNone \/ sentence_2 = PyNone
        THEN Rejected(Raise("ValueError", BothSentencesMsg))
        ELSE Extracted(sentence_1, sentence_2)

\* ExtractSentences raising ValueError for an unsupported type as well.
ExtractSentences_onekind(model_input) ==
    IF model_input.type = "DataFrame"
    THEN FromDataFrame(model_input)
    ELSE IF model_input.type = "dict"
    THEN FromDict(model_input)
    ELSE Rejected(Raise("ValueError", UnexpectedTypeMsg(model_input)))

\* ExtractSentences testing the shape before the type: model_input.shape
\* is read on every input, and only a DataFrame has one.
ExtractSentences_shapefirst(model_input) ==
    IF model_input.type # "DataFrame"
    THEN Rejected(Raise("AttributeError",
                        "'" \o model_input.type \o "' object has no attribute 'shape'"))
    ELSE FromDataFrame(model_input)

\* The isinstance chain: the two sentences, or the error raised.
ExtractSentences(model_input) ==
    IF model_input.type = "DataFrame"
    THEN FromDataFrame(model_input)
    ELSE IF model_input.type = "dict"
    THEN FromDict(model_input)
    ELSE Rejected(Raise("TypeError", UnexpectedTypeMsg(model_input)))

\* Where a delegate call of one predict call fails, if anywhere.
FailPoints == {"none", "encode_1", "encode_2", "cos_sim"}

DelegateError(fn) == Raise("Exception", fn \o " failed")

\* model.encode(sentence): the embedding of a sentence under given weights.
Embedding(weights, sentence) == <<"ndarray", weights>> \o sentence

\* util.cos_sim(a, b): a 1x1 float32 tensor.
CosSim(a, b) ==
    [type |-> "Tensor", dtype |-> "float32", shape |-> <<1, 1>>,
     data |-> <<"cos_sim">> \o a \o b]

\* Tensor.tolist() and np.array(list): the same numbers as a float64 array.
ToList(t) == [type |-> "list", dtype |-> "float", shape |-> t.shape, data |-> t.data]
NpArray(l) == [type |-> "ndarray", dtype |-> "float64", shape |-> l.shape, data |-> l.data]

\* Score with the two embeddings passed to cos_sim in the opposite order.
Score_swapped(slf, sentence_1, sentence_2, fail) ==
    IF ~ HasAttr(slf, "model")
    THEN [calls |-> << >>,
          outcome |-> Raised(Raise("AttributeError",
                         "'SimilarityModel' object has no attribute 'model'"))]
    ELSE LET w == slf.model.weights
             embedding_1 == Embedding(w, sentence_1)
             embedding_2 == Embedding(w, sentence_2)
             similarity == CosSim(embedding_2, embedding_1)
             encode_1 == Call("encode", w, <<sentence_1>>, fail # "encode_1", embedding_1)
             encode_2 == Call("encode", w, <<sentence_2>>, fail # "encode_2", embedding_2)
             cos_sim == Call("cos_sim", "", <<embedding_2, embedding_1>>,
                             fail # "cos_sim", similarity.data)
         IN  IF fail = "encode_1"
             THEN [calls |-> <<encode_1>>, outcome |-> Raised(DelegateError("encode"))]
             ELSE IF fail = "encode_2"
             THEN [calls |-> <<encode_1, encode_2>>,
                   outcome |-> Raised(DelegateError("encode"))]
             ELSE IF fail = "cos_sim"
             THEN [calls |-> <<encode_1, encode_2, cos_sim>>,
                   outcome |-> Raised(DelegateError("cos_sim"))]
             ELSE [calls |-> <<encode_1, encode_2, cos_sim>>,
                   outcome |-> Returned(NpArray(ToList(similarity)))]

\* Score with a failed first encode call tried once more.
Score_retry(slf, sentence_1, sentence_2, fail) ==
    IF ~ HasAttr(slf, "model")
    THEN [calls |-> << >>,
          outcome |-> Raised(Raise("AttributeError",
                         "'SimilarityModel' object has no attribute 'model'"))]
    ELSE LET w == slf.model.weights
             embedding_1 == Embedding(w, sentence_1)
             embedding_2 == Embedding(w, sentence_2)
             similarity == CosSim(embedding_1, embedding_2)
             encode_1 == Call("encode", w, <<sentence_1>>, fail # "encode_1", embedding_1)
             encode_2 == Call("encode", w, <<sentence_2>>, fail # "encode_2", embedding_2)
             cos_sim == Call("cos_sim", "", <<embedding_1, embedding_2>>,
                             fail # "cos_sim", similarity.data)
         IN  IF fail = "encode_1"
             THEN [calls |-> <<encode_1, encode_1>>, outcome |-> Raised(DelegateError("encode"))]
             ELSE IF fail = "encode_2"
             THEN [calls |-> <<encode_1, encode_2>>,
                   outcome |-> Raised(DelegateError("encode"))]
             ELSE IF fail = "cos_sim"
             THEN [calls |-> <<encode_1, encode_2, cos_sim>>,
                   outcome |-> Raised(DelegateError("cos_sim"))]
             ELSE [calls |-> <<encode_1, encode_2, cos_sim>>,
                   outcome |-> Returned(NpArray(ToList(similarity)))]

\* Score returning the tensor of cos_sim as it is, without the conversion.
Score_tensor(slf, sentence_1, sentence_2, fail) ==
    IF ~ HasAttr(slf, "model")
    THEN [calls |-> << >>,
          outcome |-> Raised(Raise("AttributeError",
                         "'SimilarityModel' object has no attribute 'model'"))]
    ELSE LET w == slf.model.weights
             embedding_1 == Embedding(w, sentence_1)
             embedding_2 == Embedding(w, sentence_2)
             similarity == CosSim(embedding_1, embedding_2)
             encode_1 == Call("encode", w, <<sentence_1>>, fail # "encode_1", embedding_1)
             encode_2 == Call("encode", w, <<sentence_2>>, fail # "encode_2", embedding_2)
             cos_sim == Call("cos_sim", "", <<embedding_1, embedding_2>>,
                             fail # "cos_sim", similarity.data)
         IN  IF fail = "encode_1"
             THEN [calls |-> <<encode_1>>, outcome |-> Raised(DelegateError("encode"))]
             ELSE IF fail = "encode_2"
             THEN [calls |-> <<encode_1, encode_2>>,
                   outcome |-> Raised(DelegateError("encode"))]
             ELSE IF fail = "cos_sim"
             THEN [calls |-> <<encode_1, encode_2, cos_sim>>,
                   outcome |-> Raised(DelegateError("cos_sim"))]
             ELSE [calls |-> <<encode_1, encode_2, cos_sim>>,
                   outcome |-> Returned(similarity)]

\* The two encode calls and the cos_sim call.
Score(slf, sentence_1, sentence_2, fail) ==
    IF ~ HasAttr(slf, "model")
    THEN [calls |-> << >>,
          outcome |-> Raised(Raise("AttributeError",
                         "'SimilarityModel' object has no attribute 'model'"))]
    ELSE LET w == slf.model.weights
             embedding_1 == Embedding(w, sentence_1)
             embedding_2 == Embedding(w, sentence_2)
             similarity == CosSim(embedding_1, embedding_2)
             encode_1 == Call("encode", w, <<sentence_1>>, fail # "encode_1", embedding_1)
             encode_2 == Call("encode", w, <<sentence_2>>, fail # "encode_2", embedding_2)
             cos_sim == Call("cos_sim", "", <<embedding_1, embedding_2>>,
                             fail # "cos_sim", similarity.data)
         IN  IF fail = "encode_1"
             THEN [calls |-> <<encode_1>>, outcome |-> Raised(DelegateError("encode"))]
             ELSE IF fail = "encode_2"
             THEN [calls |-> <<encode_1, encode_2>>,
                   outcome |-> Raised(DelegateError("encode"))]
             ELSE IF fail = "cos_sim"
             THEN [calls |-> <<encode_1, encode_2, cos_sim>>,
                   outcome |-> Raised(DelegateError("cos_sim"))]
             ELSE [calls |-> <<encode_1, encode_2, cos_sim>>,
                   outcome |-> Returned(NpArray(ToList(similarity)))]

\* PredictRun keeping the last input on the adapter.
PredictRun_remembering(slf, context, model_input, params, fail) ==
    LET x == ExtractSentences(model_input)
    IN  IF ~ x.ok
        THEN [self |-> slf, calls |-> << >>, outcome |-> Raised(x.error)]
        ELSE LET s == Score(slf, x.sentence_1, x.sentence_2, fail)
             IN  [self |-> SetAttr(slf, "last_input", model_input),
                  calls |-> s.calls, outcome |-> s.outcome]

\* PredictRun reading self.model before it validates the input.
PredictRun_modelfirst(slf, context, model_input, params, fail) ==
    LET x == ExtractSentences(model_input)
    IN  IF ~ HasAttr(slf, "model")
        THEN [self |-> slf, calls |-> << >>,
              outcome |-> Raised(Raise("AttributeError",
                             "'SimilarityModel' object has no attribute 'model'"))]
        ELSE IF ~ x.ok
        THEN [self |-> slf, calls |-> << >>, outcome |-> Raised(x.error)]
        ELSE LET s == Score(slf, x.sentence_1, x.sentence_2, fail)
             IN  [self |-> slf, calls |-> s.calls, outcome |-> s.outcome]

\* PredictRun refusing a call that is given no context.
PredictRun_needscontext(slf, context, model_input, params, fail) ==
    LET x == ExtractSentences(model_input)
    IN  IF context = "None"
        THEN [self |-> slf, calls |-> << >>,
              outcome |-> Raised(Raise("ValueError", "context is required"))]
        ELSE IF ~ x.ok
        THEN [self |-> slf, calls |-> << >>, outcome |-> Raised(x.error)]
        ELSE LET s == Score(slf, x.sentence_1, x.sentence_2, fail)
             IN  [self |-> slf, calls |-> s.calls, outcome |-> s.outcome]

\* predict as a function of the adapter and its arguments: the adapter
\* afterwards, the library calls made and the outcome.  context and params
\* are accepted and never read.
PredictRun(slf, context, model_input, params, fail) ==
    LET x == ExtractSentences(model_input)
    IN  IF ~ x.ok
        THEN [self |-> slf, calls |-> << >>, outcome |-> Raised(x.error)]
        ELSE LET s == Score(slf, x.sentence_1, x.sentence_2, fail)
             IN  [self |-> slf, calls |-> s.calls, outcome |-> s.outcome]

\* The output schema of the logged signature: Tensor('float64', (-1, 1)).
\* A dimension of -1 stands for any size.
SignatureOutput == [type |-> "Tensor", dtype |-> "float64", shape |-> <<-1, 1>>]

(***************************************************************************)
(* The adapter as a state machine                                          *)
(***************************************************************************)
NoCall == [op |-> "none"]

\* SimilarityModel(): a fresh instance has no attribute.
NewSimilarityModel == << >>

InitAdapter ==
    /\ self = NewSimilarityModel
    /\ loads = 0
    /\ last = NoCall
    /\ prev = NoCall

LoadContext(context, libError) ==
    LET r == LoadContextRun(self, context, libError, loads + 1)
    IN  /\ r.outcome.kind = "return" => loads < MaxLoads
        /\ self' = r.self
        /\ loads' = IF r.outcome.kind = "return" THEN loads + 1 ELSE loads
        /\ last' = [op |-> "load_context", context |-> context, before |-> self,
                    calls |-> r.calls, caught |-> r.caught, outcome |-> r.outcome]

Predict(context, model_input, params, fail) ==
    LET r == PredictRun(self, context, model_input, params, fail)
    IN  /\ self' = r.self
        /\ loads' = loads
        /\ last' = [op |-> "predict", context |-> context,
                    model_input |-> model_input, params |-> params,
                    before |-> self, calls |-> r.calls, outcome |-> r.outcome]

load_context ==
    /\ \E context \in LoadContexts, libError \in LibraryErrors :
           LoadContext(context, libError)
    /\ UNCHANGED <<prev, nb, pc, env, tracking, trace, halted>>

\* A delegate call can only fail in a predict call that reaches it.
FailChoices(slf, model_input) ==
    IF ExtractSentences(model_input).ok /\ HasAttr(slf, "model")
    THEN FailPoints
    ELSE {"none"}

predict ==
    /\ \E model_input \in Inputs :
       \E fail \in FailChoices(self, model_input) :
           Predict(PyfuncContext, model_input, NoParams, fail)
    /\ UNCHANGED <<prev, nb, pc, env, tracking, trace, halted>>

\* The tracking client before any call: no experiment set, no active run,
\* no model logged (logged holds the URIs, models what is stored under each).
NoTracking == [experiment |-> "", active_run |-> "", logged |-> {}, models |-> << >>]

InitNotebookIdle ==
    /\ nb = "none"
    /\ pc = 0
    /\ env = << >>
    /\ tracking = NoTracking
    /\ trace = << >>
    /\ halted = FALSE

Init == InitAdapter /\ InitNotebookIdle

Next == load_context \/ predict

Spec == Init /\ [][Next]_vars

(***************************************************************************)
(* The adapter observed over two predict calls: prev keeps the predict     *)
(* call that came before the most recent call.  The inputs are one pair    *)
(* of sentences as a DataFrame and as a dict, a row with a null cell, and  *)
(* inputs for every rejection; context and params vary.                    *)
(***************************************************************************)
PairInputs ==
    {DataFrame(<<"sentence_1", "sentence_2">>, <<(<<PyStr("a"), PyStr("b")>>)>>),
     Dict({<<"sentence_1", PyStr("a")>>, <<"sentence_2", PyStr("b")>>}),
     DataFrame(<<"sentence_1", "sentence_2">>, <<(<<PyStr("a"), PyNone>>)>>),
     DataFrame(<<"sentence_1", "sentence_2">>, << >>),
     DataFrame(<<"sentence_1">>, <<(<<PyStr("a")>>)>>),
     DataFrame(<<"sentence_1", "sentence_2", "extra">>,
               <<(<<PyStr("a"), PyStr("b"), PyStr("a")>>)>>),
     Dict({<<"sentence_1", PyStr("a")>>}),
     Other("list"),
     Other("str")}

KeepPredict == IF last.op = "predict" THEN last ELSE prev

pair_load_context ==
    /\ \E context \in LoadContexts, libError \in LibraryErrors :
           LoadContext(context, libError)
    /\ prev' = KeepPredict
    /\ UNCHANGED <<nb, pc, env, tracking, trace, halted>>

pair_predict ==
    /\ \E a \in PredictArgs, model_input \in PairInputs :
       \E fail \in FailChoices(self, model_input) :
           Predict(a[1], model_input, a[2], fail)
    /\ prev' = KeepPredict
    /\ UNCHANGED <<nb, pc, env, tracking, trace, halted>>

NextPair == pair_load_context \/ pair_predict

SpecPair == Init /\ [][NextPair]_vars

(***************************************************************************)
(* The notebooks as cell scripts.  A notebook is the sequence of the       *)
(* calls its code cells make, top to bottom; each call reads at most one   *)
(* variable of the notebook and binds at most one.  A call that raises     *)
(* stops the run.                                                          *)
(***************************************************************************)
Notebooks == {"semantic-similarity", "quickstart", "translation"}

\* The run ids the tracking service may hand out.
RunIds == {"run-a", "run-b", "run-c"}

\* The data argument of a notebook call: a list of sentences, one sentence,
\* or none.  The sentences are the cells of the one row.
SentenceList(sentences) ==
    [type |-> "list", columns |-> << >>,
     rows |-> <<[i \in 1..Len(sentences) |-> PyStr(sentences[i])]>>, items |-> {}]
Sentence(s) ==
    [type |-> "str", columns |-> << >>, rows |-> <<(<<PyStr(s)>>)>>, items |-> {}]
NoInput == Other("NoneType")

ItemsOf(input) == IF input.rows = << >> THEN << >> ELSE input.rows[1]

\* The lists and frames the notebooks define.
example_sentences == <<"A sentence to encode.", "Another sentence to encode.">>
inference_test == <<"I enjoy pies of both apple and cherry.", "I prefer cookies.">>
input_example ==
    DataFrame(<<"sentence_1", "sentence_2">>,
              <<(<<PyStr("I like apples"), PyStr("I like oranges")>>)>>)
similarity_data == input_example
low_similarity ==
    Dict({<<"sentence_1", PyStr("The explorer stood at the edge of the dense rainforest")>>,
          <<"sentence_2", PyStr("To install the software, begin by downloading")>>})
high_similarity ==
    Dict({<<"sentence_1", PyStr("Standing in the shadow of the Great Pyramids of Giza")>>,
          <<"sentence_2", PyStr("My visit to the Great Pyramids of Giza")>>})

StepWith(kind, fn, reads, binds, arg, input) ==
    [kind |-> kind, fn |-> fn, reads |-> reads, binds |-> binds, arg |-> arg,
     input |-> input]

Step(kind, fn, reads, binds, arg) == StepWith(kind, fn, reads, binds, arg, NoInput)

\* semantic-similarity-sentence-transformers.ipynb with set_experiment moved
\* below the logging cell.
SimilarityCells_reordered ==
    <<Step("construct", "SentenceTransformer", "", "model", "all-MiniLM-L6-v2"),
      StepWith("call", "model.encode", "model", "", "", Sentence("I like apples")),
      StepWith("call", "model.encode", "model", "", "", Sentence("I like oranges")),
      StepWith("infer_signature", "infer_signature", "model", "signature", "",
               input_example),
      Step("start_run", "mlflow.start_run", "", "run", ""),
      Step("log_model", "mlflow.pyfunc.log_model", "", "model_info", "similarity"),
      Step("end_run", "mlflow.end_run", "", "", ""),
      Step("set_experiment", "mlflow.set_experiment", "", "", "Semantic Similarity"),
      Step("load_model", "mlflow.pyfunc.load_model", "model_info", "loaded_dynamic", ""),
      StepWith("call", "loaded_dynamic.predict", "loaded_dynamic", "", "", similarity_data),
      StepWith("call", "loaded_dynamic.predict", "loaded_dynamic", "", "", low_similarity),
      StepWith("call", "loaded_dynamic.predict", "loaded_dynamic", "", "", high_similarity)>>

\* semantic-similarity-sentence-transformers.ipynb
SimilarityCells ==
    <<Step("construct", "SentenceTransformer", "", "model", "all-MiniLM-L6-v2"),
      StepWith("call", "model.encode", "model", "", "", Sentence("I like apples")),
      StepWith("call", "model.encode", "model", "", "", Sentence("I like oranges")),
      StepWith("infer_signature", "infer_signature", "model", "signature", "",
               input_example),
      Step("set_experiment", "mlflow.set_experiment", "", "", "Semantic Similarity"),
      Step("start_run", "mlflow.start_run", "", "run", ""),
      Step("log_model", "mlflow.pyfunc.log_model", "", "model_info", "similarity"),
      Step("end_run", "mlflow.end_run", "", "", ""),
      Step("load_model", "mlflow.pyfunc.load_model", "model_info", "loaded_dynamic", ""),
      StepWith("call", "loaded_dynamic.predict", "loaded_dynamic", "", "", similarity_data),
      StepWith("call", "loaded_dynamic.predict", "loaded_dynamic", "", "", low_similarity),
      StepWith("call", "loaded_dynamic.predict", "loaded_dynamic", "", "", high_similarity)>>

\* sentence-transformers-quickstart.ipynb with the native model encoding
\* example_sentences instead of inference_test.
QuickstartCells_otherlist ==
    <<Step("construct", "SentenceTransformer", "", "model", "all-MiniLM-L6-v2"),
      StepWith("infer_signature", "mlflow.models.infer_signature", "model", "signature",
               "", SentenceList(example_sentences)),
      Step("set_experiment", "mlflow.set_experiment", "", "",
           "Introduction to Sentence Transformers"),
      Step("start_run", "mlflow.start_run", "", "", ""),
      Step("log_model", "mlflow.sentence_transformers.log_model", "model", "logged_model",
           "sbert_model"),
      Step("end_run", "mlflow.end_run", "", "", ""),
      Step("load_model", "mlflow.pyfunc.load_model", "logged_model",
           "loaded_model_pyfunc", ""),
      StepWith("call", "loaded_model_pyfunc.predict", "loaded_model_pyfunc", "", "",
               SentenceList(inference_test)),
      Step("load_model", "mlflow.sentence_transformers.load_model", "logged_model",
           "loaded_model_native", ""),
      StepWith("call", "loaded_model_native.encode", "loaded_model_native", "", "",
               SentenceList(example_sentences))>>

\* sentence-transformers-quickstart.ipynb with the signature inferred from
\* the encoding of one sentence (model.encode(example_sentences[0])).
QuickstartCells_single ==
    <<Step("construct", "SentenceTransformer", "", "model", "all-MiniLM-L6-v2"),
      StepWith("infer_signature", "mlflow.models.infer_signature", "model", "signature",
               "", Sentence(example_sentences[1])),
      Step("set_experiment", "mlflow.set_experiment", "", "",
           "Introduction to Sentence Transformers"),
      Step("start_run", "mlflow.start_run", "", "", ""),
      Step("log_model", "mlflow.sentence_transformers.log_model", "model", "logged_model",
           "sbert_model"),
      Step("end_run", "mlflow.end_run", "", "", ""),
      Step("load_model", "mlflow.pyfunc.load_model", "logged_model",
           "loaded_model_pyfunc", ""),
      StepWith("call", "loaded_model_pyfunc.predict", "loaded_model_pyfunc", "", "",
               SentenceList(inference_test)),
      Step("load_model", "mlflow.sentence_transformers.load_model", "logged_model",
           "loaded_model_native", ""),
      StepWith("call", "loaded_model_native.encode", "loaded_model_native", "", "",
               SentenceList(inference_test))>>

\* sentence-transformers-quickstart.ipynb
QuickstartCells ==
    <<Step("construct", "SentenceTransformer", "", "model", "all-MiniLM-L6-v2"),
      StepWith("infer_signature", "mlflow.models.infer_signature", "model", "signature",
               "", SentenceList(example_sentences)),
      Step("set_experiment", "mlflow.set_experiment", "", "",
           "Introduction to Sentence Transformers"),
      Step("start_run", "mlflow.start_run", "", "", ""),
      Step("log_model", "mlflow.sentence_transformers.log_model", "model", "logged_model",
           "sbert_model"),
      Step("end_run", "mlflow.end_run", "", "", ""),
      Step("load_model", "mlflow.pyfunc.load_model", "logged_model",
           "loaded_model_pyfunc", ""),
      StepWith("call", "loaded_model_pyfunc.predict", "loaded_model_pyfunc", "", "",
               SentenceList(inference_test)),
      Step("load_model", "mlflow.sentence_transformers.load_model", "logged_model",
           "loaded_model_native", ""),
      StepWith("call", "loaded_model_native.encode", "loaded_model_native", "", "",
               SentenceList(inference_test))>>

\* component-translation.ipynb with the components loaded without
\* return_type="components".
TranslationCells_pipelineonly ==
    <<Step("construct", "transformers.pipeline", "", "translation_pipeline",
           "translation_en_to_fr"),
      StepWith("call", "translation_pipeline", "translation_pipeline", "", "",
               Sentence("translate English to French: I enjoyed my slow saunter along the Champs-Elysees.")),
      StepWith("infer_signature", "mlflow.models.infer_signature",
               "translation_pipeline", "signature", "",
               Sentence("This is another sample.")),
      Step("set_experiment", "mlflow.set_experiment", "", "", "Translation"),
      Step("start_run", "mlflow.start_run", "", "", ""),
      Step("log_model", "mlflow.transformers.log_model", "translation_pipeline",
           "model_info", "french_translator"),
      Step("end_run", "mlflow.end_run", "", "", ""),
      Step("load_model", "mlflow.transformers.load_model", "model_info",
           "translation_components", ""),
      Step("load_model", "mlflow.transformers.load_model", "model_info",
           "translation_pipeline", ""),
      StepWith("call", "translation_pipeline", "translation_pipeline", "", "",
               Sentence("I have heard that Nice is nice this time of year.")),
      Step("derive", "transformers.pipeline", "translation_components",
           "reconstructed_pipeline", ""),
      StepWith("call", "reconstructed_pipeline", "reconstructed_pipeline", "", "",
               Sentence("transformers makes using Deep Learning models easy and fun!")),
      StepWith("call", "tokenizer.encode", "translation_components", "", "",
               Sentence("Translate to French: Liberty, equality, fraternity, or death.")),
      StepWith("call", "model.generate", "translation_components", "", "",
               Sentence("Translate to French: Liberty, equality, fraternity, or death."))>>

\* component-translation.ipynb
TranslationCells ==
    <<Step("construct", "transformers.pipeline", "", "translation_pipeline",
           "translation_en_to_fr"),
      StepWith("call", "translation_pipeline", "translation_pipeline", "", "",
               Sentence("translate English to French: I enjoyed my slow saunter along the Champs-Elysees.")),
      StepWith("infer_signature", "mlflow.models.infer_signature",
               "translation_pipeline", "signature", "",
               Sentence("This is another sample.")),
      Step("set_experiment", "mlflow.set_experiment", "", "", "Translation"),
      Step("start_run", "mlflow.start_run", "", "", ""),
      Step("log_model", "mlflow.transformers.log_model", "translation_pipeline",
           "model_info", "french_translator"),
      Step("end_run", "mlflow.end_run", "", "", ""),
      Step("load_model", "mlflow.transformers.load_model", "model_info",
           "translation_components", "components"),
      Step("load_model", "mlflow.transformers.load_model", "model_info",
           "translation_pipeline", ""),
      StepWith("call", "translation_pipeline", "translation_pipeline", "", "",
               Sentence("I have heard that Nice is nice this time of year.")),
      Step("derive", "transformers.pipeline", "translation_components",
           "reconstructed_pipeline", ""),
      StepWith("call", "reconstructed_pipeline", "reconstructed_pipeline", "", "",
               Sentence("transformers makes using Deep Learning models easy and fun!")),
      StepWith("call", "tokenizer.encode", "translation_components", "", "",
               Sentence("Translate to French: Liberty, equality, fraternity, or death.")),
      StepWith("call", "model.generate", "translation_components", "", "",
               Sentence("Translate to French: Liberty, equality, fraternity, or death."))>>

CellsOf(notebook) ==
    IF notebook = "semantic-similarity" THEN SimilarityCells
    ELSE IF notebook = "quickstart" THEN QuickstartCells
    ELSE TranslationCells

(***************************************************************************)
(* What the objects of a notebook hold, and what the library calls of the  *)
(* notebooks yield.  The libraries are modelled by what the notebooks and  *)
(* their recorded outputs show of them.                                    *)
(***************************************************************************)
NoSchema == [type |-> "", dtype |-> "", shape |-> << >>]

\* What an object holds: its class, for a generic python function the
\* class it wraps, the weights and the task of its model, the artifacts
\* logged with it, the keys when it is a dict, the schema when it is a
\* signature or was logged with one, and the adapter instance of a loaded
\* SimilarityModel.
NoModel ==
    [class |-> "", wraps |-> "", weights |-> "", task |-> "", artifacts |-> {},
     keys |-> {}, schema |-> NoSchema, adapter |-> NewSimilarityModel]

\* model_architecture of the translation notebook.
ModelArchitecture == "google/flan-t5-base"

\* The length of an embedding of all-MiniLM-L6-v2.
EmbeddingDimension == 384

\* model.encode(input): one embedding for a str, an array with one row per
\* sentence, in order, for a list.
Encode(weights, input) ==
    LET s == ItemsOf(input)
    IN  IF input.type = "str"
        THEN [type |-> "ndarray", dtype |-> "float32", shape |-> <<EmbeddingDimension>>,
              data |-> <<Embedding(weights, s[1])>>]
        ELSE [type |-> "ndarray", dtype |-> "float32",
              shape |-> <<Len(s), EmbeddingDimension>>,
              data |-> [i \in 1..Len(s) |-> Embedding(weights, s[i])]]

\* A translation pipeline called on one sentence: a list of one dict.
Translate(holds, input) ==
    [type |-> "list", dtype |-> "dict", shape |-> <<1>>,
     data |-> <<(<<"translation_text", holds.task, holds.weights>> \o ItemsOf(input)[1])>>]

\* mlflow.transformers.generate_signature_output(pipeline, data): the text.
GenerateSignatureOutput(holds, input) ==
    [type |-> "str", dtype |-> "string", shape |-> << >>,
     data |-> Translate(holds, input).data]

\* tokenizer.encode and model.generate of the loaded components.
ComponentCall(fn, holds, input) ==
    [type |-> "Tensor", dtype |-> "int64", shape |-> <<1, -1>>,
     data |-> <<(<<fn, holds.weights>> \o ItemsOf(input)[1])>>]

\* The output schema infer_signature gives a model output: for an array a
\* tensor of its dtype whose first dimension is variable, for text a string.
InferSchema(value) ==
    IF value.type = "ndarray"
    THEN [type |-> "Tensor", dtype |-> value.dtype,
          shape |-> <<-1>> \o Tail(value.shape)]
    ELSE [type |-> "string", dtype |-> "string", shape |-> << >>]

\* input_example[name][0]
ColumnCell(frame, name) ==
    frame.rows[1][CHOOSE j \in 1..Len(frame.columns) : frame.columns[j] = name]

\* test_output of the similarity notebook.
TestOutput(weights, frame) ==
    NpArray(ToList(CosSim(Embedding(weights, ColumnCell(frame, "sentence_1")),
                          Embedding(weights, ColumnCell(frame, "sentence_2")))))

\* The keys of the dict that load_model(return_type="components") returns.
ComponentKeys == {"task", "device_map", "model", "tokenizer", "framework"}

\* The keyword parameters of transformers.pipeline.
PipelineParameters ==
    {"task", "model", "config", "tokenizer", "feature_extractor", "image_processor",
     "framework", "revision", "use_fast", "token", "device", "device_map",
     "torch_dtype", "trust_remote_code", "model_kwargs", "pipeline_class"}

\* The objects of a notebook: how the object came to be, the model URI it
\* carries or was loaded from, the position of the call that made it, and
\* what it holds.
Object(origin, uri, id, holds) ==
    [origin |-> origin, uri |-> uri, id |-> id, holds |-> holds]
NoObject == Object("", "", 0, NoModel)

\* ModelInfo.model_uri of a model logged to a run under an artifact path.
ModelUri(run, artifact_path) == "runs:/" \o run \o "/" \o artifact_path

Bound(var) == var \in DOMAIN env

\* What a constructor call builds.
Constructed(step) ==
    IF step.fn = "SentenceTransformer"
    THEN [NoModel EXCEPT !.class = "SentenceTransformer", !.weights = step.arg]
    ELSE [NoModel EXCEPT !.class = "pipeline", !.weights = ModelArchitecture,
                         !.task = step.arg]

\* The model output the notebook hands to infer_signature.
SignatureOutputOf(step, on) ==
    IF on.holds.class = "pipeline"
    THEN GenerateSignatureOutput(on.holds, step.input)
    ELSE IF step.input.type = "DataFrame"
    THEN TestOutput(on.holds.weights, step.input)
    ELSE Encode(on.holds.weights, step.input)

\* What log_model stores: the model passed, or SimilarityModel() with the
\* artifacts dict, together with the signature.
Logged(step, on, signature) ==
    IF step.fn = "mlflow.pyfunc.log_model"
    THEN [NoModel EXCEPT !.class = "SimilarityModel",
                         !.artifacts = {<<"model_path", "/tmp/sbert_model">>},
                         !.schema = signature]
    ELSE [on.holds EXCEPT !.schema = signature]

\* What load_model returns for a stored model: a generic python function
\* around it (for a SimilarityModel after load_context has run), the dict of
\* its components, or the model itself.
Loaded(step, stored) ==
    IF step.fn = "mlflow.pyfunc.load_model"
    THEN IF stored.class = "SimilarityModel"
         THEN [stored EXCEPT
                  !.class = "PyFuncModel", !.wraps = stored.class,
                  !.adapter = LoadContextRun(NewSimilarityModel,
                                  Context(stored.artifacts), NoError, 1).self]
         ELSE [stored EXCEPT !.class = "PyFuncModel", !.wraps = stored.class]
    ELSE IF step.arg = "components"
    THEN [stored EXCEPT !.class = "dict", !.keys = ComponentKeys]
    ELSE stored

\* transformers.pipeline(**components): the task and the model are the
\* dict's entries.
Rebuilt(components) ==
    [NoModel EXCEPT
        !.class = "pipeline",
        !.task = IF "task" \in components.keys THEN components.task ELSE "",
        !.weights = IF "model" \in components.keys THEN components.weights ELSE ""]

\* A call on a SimilarityModel behind a generic python function.
PyfuncPredict(holds, input) ==
    PredictRun(holds.adapter, PyfuncContext, input, NoParams, "none").outcome

\* What a call on an object returns.
CallResult(step, on) ==
    LET h == on.holds
    IN  IF h.class = "SentenceTransformer" THEN Encode(h.weights, step.input)
        ELSE IF h.class = "PyFuncModel" /\ h.wraps = "SentenceTransformer"
        THEN Encode(h.weights, step.input)
        ELSE IF h.class = "PyFuncModel" /\ h.wraps = "SimilarityModel"
        THEN PyfuncPredict(h, step.input).value
        ELSE IF h.class = "pipeline" THEN Translate(h, step.input)
        ELSE IF h.class = "dict" THEN ComponentCall(step.fn, h, step.input)
        ELSE NoValue

\* One executed call: the step, the object it was called on, its data
\* argument, the model URI passed or returned, the active run when it was
\* made, the object it bound and the value it returned.
Executed(step, on, uri, run, returns, output, ok) ==
    [kind |-> step.kind, fn |-> step.fn, on |-> on, input |-> step.input,
     uri |-> uri, run |-> run, returns |-> returns, output |-> output, ok |-> ok]

\* What makes Python or a library refuse the next call: a variable that is
\* not bound yet, a second start_run while a run is active, a model URI
\* under which nothing has been logged, ** applied to an object that is not
\* a mapping or a key that transformers.pipeline does not take, an adapter
\* call that raises.
Refused(step) ==
    \/ step.reads # "" /\ ~ Bound(step.reads)
    \/ step.kind = "log_model" /\ ~ Bound("signature")
    \/ step.kind = "start_run" /\ tracking.active_run # ""
    \/ /\ step.kind = "load_model" /\ Bound(step.reads)
       /\ env[step.reads].uri \notin tracking.logged
    \/ /\ step.kind = "derive" /\ Bound(step.reads)
       /\ \/ env[step.reads].holds.class # "dict"
          \/ ~ (env[step.reads].holds.keys \subseteq PipelineParameters)
          \/ env[step.reads].holds.keys \cap {"task", "model"} = {}
    \/ /\ step.kind = "call" /\ Bound(step.reads)
       /\ env[step.reads].holds.wraps = "SimilarityModel"
       /\ PyfuncPredict(env[step.reads].holds, step.input).kind = "raise"

\* The next call returns.  run is the id the service gives a new run.
RunCell(step, run) ==
    LET here == Len(trace) + 1
        on == IF step.reads # "" THEN env[step.reads] ELSE NoObject
        \* log_model logs to the active run and starts one when none is active
        target == IF tracking.active_run # "" THEN tracking.active_run ELSE run
        uri == IF step.kind = "log_model" THEN ModelUri(target, step.arg)
               ELSE IF step.kind = "load_model" THEN on.uri ELSE ""
        output ==
            IF step.kind = "call" THEN CallResult(step, on)
            ELSE IF step.kind = "infer_signature" THEN SignatureOutputOf(step, on)
            ELSE NoValue
        made ==
            IF step.kind = "construct"
            THEN Object("constructed", "", here, Constructed(step))
            ELSE IF step.kind = "infer_signature"
            THEN Object("infer_signature", "", here,
                        [NoModel EXCEPT !.class = "ModelSignature",
                                        !.schema = InferSchema(output)])
            ELSE IF step.kind = "start_run" THEN Object("start_run", "", here, NoModel)
            ELSE IF step.kind = "log_model"
            THEN Object("log_model", uri, here,
                        Logged(step, on, env["signature"].holds.schema))
            ELSE IF step.kind = "load_model"
            THEN Object("load_model", uri, here, Loaded(step, tracking.models[uri]))
            ELSE IF step.kind = "derive"
            THEN Object("derive", on.uri, here, Rebuilt(on.holds))
            ELSE NoObject
    IN  /\ ~ Refused(step)
        /\ tracking' =
               IF step.kind = "set_experiment"
               THEN [tracking EXCEPT !.experiment = step.arg]
               ELSE IF step.kind = "start_run"
               THEN [tracking EXCEPT !.active_run = run]
               ELSE IF step.kind = "log_model"
               THEN [tracking EXCEPT !.active_run = target,
                                     !.logged = @ \cup {uri},
                                     !.models = SetAttr(@, uri, made.holds)]
               ELSE IF step.kind = "end_run"
               THEN [tracking EXCEPT !.active_run = ""]
               ELSE tracking
        /\ env' = IF step.binds # "" THEN SetAttr(env, step.binds, made) ELSE env
        /\ trace' = Append(trace,
               Executed(step, on, uri,
                      IF step.kind \in {"start_run", "log_model"}
                      THEN tracking'.active_run ELSE tracking.active_run,
                      made, output, TRUE))
        /\ pc' = pc + 1
        /\ halted' = FALSE

\* The next call raises: the run stops there.
FailCell(step) ==
    /\ trace' = Append(trace,
           Executed(step, NoObject, "", tracking.active_run, NoObject, NoValue, FALSE))
    /\ halted' = TRUE
    /\ UNCHANGED <<pc, env, tracking>>

\* The run ids a call can be given: only start_run, and log_model outside a
\* run, ask the service for one.
RunChoices(step) ==
    IF step.kind = "start_run" \/ (step.kind = "log_model" /\ tracking.active_run = "")
    THEN RunIds
    ELSE {"run-a"}

run_cell ==
    /\ nb \in Notebooks
    /\ ~ halted
    /\ pc < Len(CellsOf(nb))
    /\ \E run \in RunChoices(CellsOf(nb)[pc + 1]) : RunCell(CellsOf(nb)[pc + 1], run)
    /\ UNCHANGED <<nb, self, loads, last, prev>>

cell_raises ==
    /\ nb \in Notebooks
    /\ ~ halted
    /\ pc < Len(CellsOf(nb))
    /\ FailCell(CellsOf(nb)[pc + 1])
    /\ UNCHANGED <<nb, self, loads, last, prev>>

InitNotebook ==
    /\ InitAdapter
    /\ nb \in Notebooks
    /\ pc = 0
    /\ env = << >>
    /\ tracking = NoTracking
    /\ trace = << >>
    /\ halted = FALSE

NextNotebook == run_cell \/ cell_raises

SpecNotebook == InitNotebook /\ [][NextNotebook]_vars

(***************************************************************************)
(* Vocabulary of the properties                                            *)
(***************************************************************************)
IsDataFrame(x) == x.type = "DataFrame"
IsDict(x) == x.type = "dict"

HasKey(x, key) == \E p \in x.items : p[1] = key
ValueOf(x, key) == (CHOOSE p \in x.items : p[1] = key)[2]

\* A two-column frame with a row 0, or a dict with both sentences present.
WellFormed(x) ==
    \/ IsDataFrame(x) /\ Len(x.columns) = 2 /\ Len(x.rows) >= 1
    \/ /\ IsDict(x)
       /\ HasKey(x, "sentence_1") /\ ValueOf(x, "sentence_1") # PyNone
       /\ HasKey(x, "sentence_2") /\ ValueOf(x, "sentence_2") # PyNone

\* The two designated fields of a well-formed input.
Field1(x) == IF IsDataFrame(x) THEN x.rows[1][1] ELSE ValueOf(x, "sentence_1")
Field2(x) == IF IsDataFrame(x) THEN x.rows[1][2] ELSE ValueOf(x, "sentence_2")

IsPrefix(s, t) == Len(s) <= Len(t) /\ \A i \in 1..Len(s) : s[i] = t[i]

\* The arguments of the encode calls of a call record, in call order.
EncodeArgs(calls) ==
    LET enc == SelectSeq(calls, LAMBDA c : c.fn = "encode")
    IN  [i \in 1..Len(enc) |-> enc[i].args[1]]

CallsOf(calls, fn) == SelectSeq(calls, LAMBDA c : c.fn = fn)

AllOk(calls) == \A i \in 1..Len(calls) : calls[i].ok

WasLoaded(call) == HasAttr(call.before, "model")

(***************************************************************************)
(* C1: in every predict call on a well-formed input the values passed to   *)
(* model.encode are the two designated fields, unchanged and in order      *)
(* (first field first), and nothing else of the input is passed on: the    *)
(* encode arguments are a prefix of <<field 1, field 2>>, and are exactly  *)
(* the two fields whenever the adapter has a model and no encode raises.   *)
(***************************************************************************)
C1_ForwardsFields ==
    (last.op = "predict" /\ WellFormed(last.model_input)) =>
        LET f == <<Field1(last.model_input), Field2(last.model_input)>>
            enc == EncodeArgs(last.calls)
        IN  /\ IsPrefix(enc, f)
            /\ \A i \in 1..Len(last.calls) :
                   last.calls[i].fn = "encode" \/ last.calls[i].fn = "cos_sim"
            /\ (WasLoaded(last) /\ AllOk(CallsOf(last.calls, "encode"))) => enc = f
            /\ last.outcome.kind = "return" => enc = f

C1_Witness ==
    /\ last.op = "predict"
    /\ IsDataFrame(last.model_input)
    /\ Len(last.model_input.rows) = 2
    /\ last.outcome.kind = "return"
    /\ EncodeArgs(last.calls) = <<PyStr("b"), PyStr("a")>>

(***************************************************************************)
(* C2: a predict call whose input lacks one of the two fields (a frame     *)
(* with fewer than two columns or without a row, a dict with a sentence    *)
(* absent or None) or is neither a DataFrame nor a dict raises without     *)
(* any encode or cos_sim call having been made.                            *)
(***************************************************************************)
MissingField(x) ==
    \/ IsDataFrame(x) /\ (Len(x.columns) < 2 \/ Len(x.rows) = 0)
    \/ /\ IsDict(x)
       /\ \E key \in {"sentence_1", "sentence_2"} :
              ~ HasKey(x, key) \/ ValueOf(x, key) = PyNone

Unsupported(x) == ~ IsDataFrame(x) /\ ~ IsDict(x)

C2_RejectsBeforeModel ==
    (last.op = "predict"
        /\ (MissingField(last.model_input) \/ Unsupported(last.model_input))) =>
        /\ last.outcome.kind = "raise"
        /\ last.calls = << >>

C2_Witness ==
    /\ last.op = "predict"
    /\ WasLoaded(last)
    /\ IsDict(last.model_input)
    /\ HasKey(last.model_input, "sentence_1")
    /\ HasKey(last.model_input, "sentence_2")
    /\ ValueOf(last.model_input, "sentence_2") = PyNone
    /\ last.outcome.kind = "raise"

(***************************************************************************)
(* C3: load_context raises exactly when the context has no artifacts, the  *)
(* artifacts have no 'model_path' entry or SentenceTransformer.load        *)
(* raises; whatever was raised underneath, the error that leaves           *)
(* load_context is a ValueError whose message is "Error loading model: "   *)
(* followed by the text of the underlying error.                           *)
(***************************************************************************)
LoadMustFail(context) ==
    \/ context.type = "NoneType"
    \/ ~ \E p \in context.artifacts : p[1] = "model_path"
    \/ \E p \in context.artifacts : p[1] = "model_path" /\ p[2] \in BadPaths

\* The text Python prints for the underlying error.
UnderlyingText(e) ==
    IF e.type = "KeyError" THEN "'model_path'" ELSE e.msg

C3_LoadErrorsWrapped ==
    last.op = "load_context" =>
        /\ LoadMustFail(last.context) <=> last.outcome.kind = "raise"
        /\ last.outcome.kind = "raise" =>
              /\ last.caught # NoError
              /\ last.outcome.error.type = "ValueError"
              /\ last.outcome.error.msg =
                     "Error loading model: " \o UnderlyingText(last.caught)

C3_Witness ==
    /\ last.op = "load_context"
    /\ last.outcome.kind = "raise"
    /\ last.caught.type = "RuntimeError"
    /\ last.outcome.error.type = "ValueError"

(***************************************************************************)
(* C4: the claim as stated: an input is accepted when it has an accepted   *)
(* shape and both sentences are present; every other input ends in one     *)
(* and the same error kind, and every accepted input ends in a returned    *)
(* score (read here for an adapter that has a model and whose delegate     *)
(* calls return).                                                          *)
(***************************************************************************)
BothPresent(x) == Field1(x) # PyNone /\ Field2(x) # PyNone

ClaimAccepted(x) == WellFormed(x) /\ BothPresent(x)

C4_Original ==
    /\ (/\ last.op = "predict" /\ ClaimAccepted(last.model_input)
        /\ WasLoaded(last) /\ AllOk(last.calls)) =>
           last.outcome.kind = "return"
    /\ (/\ last.op = "predict" /\ ~ ClaimAccepted(last.model_input)
        /\ last.calls = << >>) =>
           last.outcome.kind = "raise"
    /\ (/\ prev.op = "predict" /\ ~ ClaimAccepted(prev.model_input)
        /\ last.op = "predict" /\ ~ ClaimAccepted(last.model_input)
        /\ prev.calls = << >> /\ last.calls = << >>) =>
           prev.outcome.error.type = last.outcome.error.type

(***************************************************************************)
(* C4 as amended: predict checks the type of its input, the column count   *)
(* of a DataFrame and the presence of both sentences of a dict.  An input  *)
(* that fails a check raises before any model call: TypeError when it is   *)
(* neither a DataFrame nor a dict, ValueError for a DataFrame whose column *)
(* count is not 2 and for a dict with a sentence absent or None; a         *)
(* two-column DataFrame without rows raises IndexError.  Every other       *)
(* input, a DataFrame row with a null cell included, reaches the model     *)
(* and ends in a returned score when the adapter has a loaded model and    *)
(* no delegate call raises.                                                *)
(***************************************************************************)
DictLacksSentence(x) ==
    /\ IsDict(x)
    /\ \E key \in {"sentence_1", "sentence_2"} :
           ~ HasKey(x, key) \/ ValueOf(x, key) = PyNone

WrongColumnCount(x) == IsDataFrame(x) /\ Len(x.columns) # 2

NoRow(x) == IsDataFrame(x) /\ Len(x.columns) = 2 /\ Len(x.rows) = 0

RaisedBeforeModel(call, type) ==
    /\ call.outcome.kind = "raise"
    /\ call.outcome.error.type = type
    /\ call.calls = << >>

C4_Amended ==
    last.op = "predict" =>
        LET x == last.model_input
        IN  /\ Unsupported(x) => RaisedBeforeModel(last, "TypeError")
            /\ WrongColumnCount(x) => RaisedBeforeModel(last, "ValueError")
            /\ DictLacksSentence(x) => RaisedBeforeModel(last, "ValueError")
            /\ NoRow(x) => RaisedBeforeModel(last, "IndexError")
            /\ WellFormed(x) =>
                   /\ last.outcome.kind = "return" <=>
                          (WasLoaded(last) /\ AllOk(last.calls))
                   /\ WasLoaded(last) => Len(last.calls) >= 1

C4_Witness ==
    /\ prev.op = "predict" /\ last.op = "predict"
    /\ WasLoaded(prev) /\ WasLoaded(last)
    /\ prev.outcome.error.type = "TypeError"
    /\ last.outcome.error.type = "ValueError"
    /\ prev.calls = << >> /\ last.calls = << >>

(***************************************************************************)
(* C5: two predict calls with the same input, made on model objects that   *)
(* were loaded from the same artifact path (the second after a further     *)
(* load), issue the same delegate calls: the functions, the weights they   *)
(* run on and the arguments agree call by call as far as both calls get,   *)
(* and the whole traces and the results agree when no delegate raises.     *)
(***************************************************************************)
Issued(calls) ==
    [i \in 1..Len(calls) |->
        [fn |-> calls[i].fn, on |-> calls[i].on, args |-> calls[i].args]]

SameArtifact(c1, c2) ==
    /\ WasLoaded(c1) /\ WasLoaded(c2)
    /\ c1.before.model.path = c2.before.model.path

C6_SingleCosSim ==
    (last.op = "predict" /\ last.outcome.kind = "return") =>
        LET c == last.calls
            x == last.model_input
        IN  /\ Len(c) = 3
            /\ Len(CallsOf(c, "cos_sim")) = 1
            /\ c[1].fn = "encode" /\ c[1].args = <<Field1(x)>>
            /\ c[2].fn = "encode" /\ c[2].args = <<Field2(x)>>
            /\ c[3].fn = "cos_sim" /\ c[3].args = <<c[1].result, c[2].result>>
            /\ last.outcome.value.data = c[3].result
            /\ last.outcome.value.shape = <<1, 1>>

C6_Witness ==
    /\ last.op = "predict"
    /\ last.outcome.kind = "return"
    /\ IsDict(last.model_input)
    /\ Field1(last.model_input) = PyStr("a")
    /\ Field2(last.model_input) = PyStr("")

(***************************************************************************)
(* C7: the claim as stated: each of the three rejections has one fixed     *)
(* message, so two inputs rejected by the same check get the same message. *)
(***************************************************************************)
RejectedBy(x) ==
    IF WrongColumnCount(x) THEN "columns"
    ELSE IF DictLacksSentence(x) THEN "keys"
    ELSE IF Unsupported(x) THEN "type"
    ELSE ""

C7_Original ==
    /\ (last.op = "predict" /\ RejectedBy(last.model_input) # "") =>
           last.outcome.kind = "raise" /\ last.calls = << >>
    /\ (/\ prev.op = "predict" /\ last.op = "predict"
        /\ RejectedBy(prev.model_input) # ""
        /\ RejectedBy(prev.model_input) = RejectedBy(last.model_input)) =>
           prev.outcome.error.msg = last.outcome.error.msg

(***************************************************************************)
(* C7 as amended: a DataFrame whose column count is not 2, a dict lacking  *)
(* a sentence and an input that is neither are always rejected at once;    *)
(* the first two with a fixed message each, the third with a message that  *)
(* embeds the type of the input and so differs from one type to another.   *)
(***************************************************************************)
C7_Amended ==
    last.op = "predict" =>
        LET x == last.model_input
            e == last.outcome.error
        IN  /\ RejectedBy(x) # "" => last.outcome.kind = "raise" /\ last.calls = << >>
            /\ RejectedBy(x) = "columns" =>
                   /\ e.type = "ValueError"
                   /\ e.msg = "DataFrame input must have exactly two columns."
            /\ RejectedBy(x) = "keys" =>
                   /\ e.type = "ValueError"
                   /\ e.msg = "Both 'sentence_1' and 'sentence_2' must be provided in the input dictionary."
            /\ RejectedBy(x) = "type" =>
                   /\ e.type = "TypeError"
                   /\ e.msg = "Unexpected type for model_input: <class '" \o x.type
                                 \o "'>. Must be either a Dict or a DataFrame."

C7_Witness ==
    /\ last.op = "predict"
    /\ WasLoaded(last)
    /\ IsDataFrame(last.model_input)
    /\ Len(last.model_input.columns) = 3
    /\ Len(last.model_input.rows) = 1
    /\ last.outcome.error.type = "ValueError"

(***************************************************************************)
(* C8: a predict step, returning or raising, leaves the adapter as it      *)
(* was; the adapter never holds anything but its model, and that model is  *)
(* always the object built by the latest successful load_context.          *)
(***************************************************************************)
OnlyTheLoadedModel ==
    /\ DOMAIN self \subseteq {"model"}
    /\ loads = 0 => self = NewSimilarityModel
    /\ loads > 0 => HasAttr(self, "model") /\ self.model.id = loads
    /\ last.op = "predict" => self = last.before

C8_PredictKeepsState ==
    /\ []OnlyTheLoadedModel
    /\ [][last'.op = "predict" => self' = self]_vars

C8_Witness ==
    /\ last.op = "predict"
    /\ last.outcome.kind = "return"
    /\ self.model.id = 2
    /\ self = last.before

(***************************************************************************)
(* C9: a load_context call calls SentenceTransformer.load at most once     *)
(* and, when the load fails, raises and leaves the adapter without a       *)
(* substitute model; a predict call makes at most two encode calls and     *)
(* one cos_sim call, and a delegate call that raises is the last call of   *)
(* its predict call, which then raises too.                                *)
(***************************************************************************)
FailedCallEnds(call) ==
    \A i \in 1..Len(call.calls) :
        ~ call.calls[i].ok => i = Len(call.calls) /\ call.outcome.kind = "raise"

C9_NoRetry ==
    /\ last.op = "load_context" =>
           /\ Len(last.calls) <= 1
           /\ FailedCallEnds(last)
           /\ last.outcome.kind = "raise" => self = last.before
    /\ last.op = "predict" =>
           /\ Len(CallsOf(last.calls, "encode")) <= 2
           /\ Len(CallsOf(last.calls, "cos_sim")) <= 1
           /\ Len(last.calls) <= 3
           /\ FailedCallEnds(last)

C9_Witness ==
    /\ last.op = "predict"
    /\ Len(last.calls) = 1
    /\ ~ last.calls[1].ok
    /\ last.outcome.kind = "raise"

(***************************************************************************)
(* C10: in each notebook, at every point of its run: a start_run call has  *)
(* a set_experiment call before it; a log_model call is made while the     *)
(* run started by an earlier start_run is active; a load_model call is     *)
(* given the model URI that an earlier, completed log_model call           *)
(* returned; a call on a loaded model comes after the load_model call      *)
(* that returned that model.                                               *)
(***************************************************************************)
Before(i, P(_)) == \E j \in 1..(i - 1) : trace[j].ok /\ P(trace[j])

C10_FixedOrder ==
    \A i \in 1..Len(trace) :
        LET c == trace[i]
        IN  /\ (c.kind = "start_run" /\ c.ok) =>
                   Before(i, LAMBDA b : b.kind = "set_experiment")
            /\ (c.kind = "log_model" /\ c.ok) =>
                   /\ c.run # ""
                   /\ Before(i, LAMBDA b : b.kind = "start_run" /\ b.run = c.run)
                   /\ ~ \E j \in 1..(i - 1) :
                          /\ trace[j].kind = "end_run"
                          /\ \A k \in (j + 1)..(i - 1) : trace[k].kind # "start_run"
            /\ (c.kind = "load_model" /\ c.ok) =>
                   Before(i, LAMBDA b : b.kind = "log_model" /\ b.uri = c.uri)
            /\ (c.kind = "call" /\ c.ok /\ c.on.origin = "load_model") =>
                   Before(i, LAMBDA b : b.kind = "load_model" /\ b.returns = c.on)

C10_Witness ==
    /\ nb = "translation"
    /\ pc = Len(TranslationCells)
    /\ ~ halted
    /\ trace[Len(trace)].on.origin = "load_model"
    /\ trace[Len(trace)].on.uri = "runs:/run-b/french_translator"

(***************************************************************************)
(* C12: a predict call on two single sentences (two str values) that       *)
(* returns yields one score: a numpy array of dtype float64 with one row   *)
(* and one column, which fits the logged output schema                     *)
(* Tensor('float64', (-1, 1)); the one number in it is the cosine          *)
(* similarity that cos_sim computed for the embeddings of the two          *)
(* sentences, passed on without any arithmetic of the adapter, and such a  *)
(* call returns whenever the adapter has a model and no delegate raises.   *)
(***************************************************************************)
IsSentence(v) == Len(v) = 2 /\ v[1] = "str"

SentencePair(x) == WellFormed(x) /\ IsSentence(Field1(x)) /\ IsSentence(Field2(x))

\* A value fits a tensor schema: an array of the declared dtype and rank
\* whose every dimension has the declared size, a declared -1 fitting any.
Conforms(value, schema) ==
    /\ value.type = "ndarray"
    /\ value.dtype = schema.dtype
    /\ Len(value.shape) = Len(schema.shape)
    /\ \A i \in 1..Len(schema.shape) :
           schema.shape[i] = -1 \/ value.shape[i] = schema.shape[i]

Entries(value) ==
    IF Len(value.shape) = 2 THEN value.shape[1] * value.shape[2] ELSE 0

StandardFrame(x) ==
    /\ IsDataFrame(x)
    /\ x.columns = <<"sentence_1", "sentence_2">>
    /\ Len(x.rows) = 1

TwoKeyDict(x) ==
    /\ IsDict(x)
    /\ {p[1] : p \in x.items} = {"sentence_1", "sentence_2"}

SameSentences(df, d) ==
    /\ StandardFrame(df) /\ TwoKeyDict(d)
    /\ SentencePair(df) /\ SentencePair(d)
    /\ df.rows[1][1] = ValueOf(d, "sentence_1")
    /\ df.rows[1][2] = ValueOf(d, "sentence_2")

PathsAgree(c1, c2) ==
    /\ \/ IsPrefix(Issued(c1.calls), Issued(c2.calls))
       \/ IsPrefix(Issued(c2.calls), Issued(c1.calls))
    /\ (AllOk(c1.calls) /\ AllOk(c2.calls)) =>
           /\ c1.calls = c2.calls
           /\ c1.outcome = c2.outcome
    /\ (WasLoaded(c1) /\ AllOk(c1.calls)) =>
           /\ Len(c1.calls) = 3
           /\ EncodeArgs(c1.calls) = <<Field1(c1.model_input), Field2(c1.model_input)>>

C16_PathsAgree ==
    (/\ prev.op = "predict" /\ last.op = "predict"
     /\ prev.before = last.before
     /\ \/ SameSentences(prev.model_input, last.model_input)
        \/ SameSentences(last.model_input, prev.model_input)) =>
        PathsAgree(prev, last) /\ PathsAgree(last, prev)

C16_Witness ==
    /\ prev.op = "predict" /\ last.op = "predict"
    /\ SameSentences(prev.model_input, last.model_input)
    /\ WasLoaded(prev) /\ prev.before = last.before
    /\ prev.outcome.kind = "return"
    /\ last.outcome = prev.outcome
    /\ EncodeArgs(last.calls) = <<PyStr("a"), PyStr("b")>>

(***************************************************************************)
(* C17: a predict call on a two-column DataFrame with n >= 1 rows passes   *)
(* only the two cells of row 0 to encode; no value of the rows 1..n-1      *)
(* appears in any delegate call, and a call that returns yields one score  *)
(* (a 1x1 array) whatever n is.                                            *)
(***************************************************************************)
TwoColumnRows(x) == IsDataFrame(x) /\ Len(x.columns) = 2 /\ Len(x.rows) >= 1

\* The text of a cell: the string of a str cell, "" for a null.
TextOf(cell) == IF Len(cell) = 2 THEN cell[2] ELSE ""

\* The cell occurs in the call: as an argument or inside an embedding passed.
OccursIn(cell, call) ==
    \E i \in 1..Len(call.args) :
        \/ call.args[i] = cell
        \/ \E k \in 1..Len(call.args[i]) : call.args[i][k] = TextOf(cell)

LaterRowsDistinct(x) ==
    \A i \in 2..Len(x.rows) : \A j \in 1..2 :
        x.rows[i][j] # x.rows[1][1] /\ x.rows[i][j] # x.rows[1][2]

C17_OnlyRowZero ==
    (last.op = "predict" /\ TwoColumnRows(last.model_input)) =>
        LET x == last.model_input
        IN  /\ IsPrefix(EncodeArgs(last.calls), <<x.rows[1][1], x.rows[1][2]>>)
            /\ LaterRowsDistinct(x) =>
                   \A i \in 2..Len(x.rows) : \A j \in 1..2 :
                       \A c \in 1..Len(last.calls) :
                           ~ OccursIn(x.rows[i][j], last.calls[c])
            /\ last.outcome.kind = "return" =>
                   /\ last.outcome.value.shape = <<1, 1>>
                   /\ Len(CallsOf(last.calls, "encode")) = 2
            /\ (WasLoaded(last) /\ AllOk(last.calls)) => last.outcome.kind = "return"

C17_Witness ==
    /\ last.op = "predict"
    /\ TwoColumnRows(last.model_input)
    /\ Len(last.model_input.rows) = 2
    /\ last.model_input.rows[2] = <<PyStr("z"), PyStr("z")>>
    /\ last.outcome.kind = "return"
    /\ EncodeArgs(last.calls) = <<PyStr("a"), PyStr("b")>>
    /\ last.outcome.value.shape = <<1, 1>>

(***************************************************************************)
(* C18: a predict call on a two-column DataFrame is never rejected for     *)
(* the names of its columns, and the cell of column 0 is passed to encode  *)
(* first and the cell of column 1 second whatever the columns are called:  *)
(* with the columns ['sentence_2', 'sentence_1'] the value under           *)
(* 'sentence_2' is encoded as the first sentence.                          *)
(***************************************************************************)
\* The cell of row 0 under the column of a given name.
Named(x, name) ==
    x.rows[1][CHOOSE j \in 1..Len(x.columns) : x.columns[j] = name]

AdapterRejection(call) ==
    /\ call.outcome.kind = "raise"
    /\ call.calls = << >>
    /\ call.outcome.error.type \in {"ValueError", "TypeError", "KeyError", "IndexError"}

C18_ByPosition ==
    (last.op = "predict" /\ TwoColumnRows(last.model_input)) =>
        LET x == last.model_input
            enc == EncodeArgs(last.calls)
        IN  /\ ~ AdapterRejection(last)
            /\ Len(enc) >= 1 => enc[1] = x.rows[1][1]
            /\ Len(enc) >= 2 => enc[2] = x.rows[1][2]
            /\ WasLoaded(last) => Len(enc) >= 1
            /\ (WasLoaded(last) /\ x.columns = <<"sentence_2", "sentence_1">>) =>
                   enc[1] = Named(x, "sentence_2")

C18_Witness ==
    /\ last.op = "predict"
    /\ TwoColumnRows(last.model_input)
    /\ last.model_input.columns = <<"sentence_2", "sentence_1">>
    /\ Named(last.model_input, "sentence_2") = PyStr("a")
    /\ Named(last.model_input, "sentence_1") = PyStr("b")
    /\ last.outcome.kind = "return"
    /\ last.calls[1].args = <<PyStr("a")>>

(***************************************************************************)
(* C19: a predict call on a dict is rejected (ValueError, no delegate      *)
(* call) exactly when the value under 'sentence_1' or under 'sentence_2'   *)
(* is absent or None.  A dict with further keys is treated as the dict     *)
(* without them, and a value that is present and not None, the empty       *)
(* string included, is passed to encode.                                   *)
(***************************************************************************)
\* An entry of the dict under a key other than the two sentences occurs.
ExtraKeys(x) == {p \in x.items : p[1] \notin {"sentence_1", "sentence_2"}}

C19_DictPresence ==
    (last.op = "predict" /\ IsDict(last.model_input)) =>
        LET x == last.model_input
            enc == EncodeArgs(last.calls)
        IN  /\ DictLacksSentence(x) <=>
                   /\ RaisedBeforeModel(last, "ValueError")
                   /\ last.outcome.error.msg = BothSentencesMsg
            /\ ~ DictLacksSentence(x) =>
                   /\ IsPrefix(enc, <<ValueOf(x, "sentence_1"), ValueOf(x, "sentence_2")>>)
                   /\ WasLoaded(last) =>
                          /\ Len(enc) >= 1
                          /\ last.calls[1].args = <<ValueOf(x, "sentence_1")>>
                   /\ (WasLoaded(last) /\ AllOk(last.calls)) =>
                          last.outcome.kind = "return" /\ Len(enc) = 2
            /\ \A p \in ExtraKeys(x) : \A c \in 1..Len(last.calls) :
                   ~ OccursIn(p[2], last.calls[c])

C19_Witness ==
    /\ last.op = "predict"
    /\ IsDict(last.model_input)
    /\ ExtraKeys(last.model_input) # {}
    /\ ~ DictLacksSentence(last.model_input)
    /\ ValueOf(last.model_input, "sentence_1") = PyStr("")
    /\ last.outcome.kind = "return"
    /\ last.calls[1].args = <<PyStr("")>>

(***************************************************************************)
(* C20: a predict call on a two-column DataFrame whose row 0 holds a null  *)
(* is not rejected by the adapter: on an adapter that has a model the      *)
(* null is passed to encode (as the first argument when it is in column    *)
(* 0, as the second when it is in column 1 and the first encode call       *)
(* returned).  A dict with None under a sentence key raises ValueError     *)
(* before any encode call.                                                 *)
(***************************************************************************)
NullInRowZero(x) ==
    TwoColumnRows(x) /\ (x.rows[1][1] = PyNone \/ x.rows[1][2] = PyNone)

NoneInDict(x) ==
    /\ IsDict(x)
    /\ \E key \in {"sentence_1", "sentence_2"} :
           HasKey(x, key) /\ ValueOf(x, key) = PyNone

C20_FrameNullForwarded ==
    last.op = "predict" =>
        LET x == last.model_input
        IN  /\ NullInRowZero(x) =>
                   /\ ~ AdapterRejection(last)
                   /\ WasLoaded(last) =>
                          /\ Len(last.calls) >= 1
                          /\ last.calls[1].fn = "encode"
                          /\ last.calls[1].args = <<x.rows[1][1]>>
                          /\ last.calls[1].ok =>
                                 /\ Len(last.calls) >= 2
                                 /\ last.calls[2].fn = "encode"
                                 /\ last.calls[2].args = <<x.rows[1][2]>>
            /\ NoneInDict(x) => RaisedBeforeModel(last, "ValueError")

C20_Witness ==
    /\ last.op = "predict"
    /\ WasLoaded(last)
    /\ NullInRowZero(last.model_input)
    /\ last.model_input.rows[1] = <<PyStr("a"), PyNone>>
    /\ Len(last.calls) >= 2
    /\ last.calls[1].ok
    /\ last.calls[2].args = <<PyNone>>

(***************************************************************************)
(* C13: in the quickstart notebook every call on the model loaded as a     *)
(* generic python function (predict) and every call on the model loaded    *)
(* natively (encode) are made on objects loaded from the same logged       *)
(* model URI, are given the same list of sentences, and return the same    *)
(* embeddings; a run that reaches the end has made both calls.             *)
(***************************************************************************)
OkCalls == {i \in 1..Len(trace) : trace[i].ok /\ trace[i].kind = "call"}

PyfuncCalls ==
    {i \in OkCalls : /\ trace[i].on.origin = "load_model"
                     /\ trace[i].on.holds.class = "PyFuncModel"}

NativeCalls ==
    {i \in OkCalls : /\ trace[i].on.origin = "load_model"
                     /\ trace[i].on.holds.class = "SentenceTransformer"}

Done(kind) == {i \in 1..Len(trace) : trace[i].ok /\ trace[i].kind = kind}

NextStep == CellsOf(nb)[pc + 1]

AdapterMessages == {TwoColumnsMsg, BothSentencesMsg}

C21_ZeroRowsIndexError ==
    (last.op = "predict" /\ NoRow(last.model_input)) =>
        /\ last.outcome.kind = "raise"
        /\ last.outcome.error.type = "IndexError"
        /\ last.outcome.error.type \notin {"ValueError", "TypeError"}
        /\ last.outcome.error.msg \notin AdapterMessages
        /\ CallsOf(last.calls, "encode") = << >>
        /\ last.calls = << >>

C21_Witness ==
    /\ last.op = "predict"
    /\ WasLoaded(last)
    /\ NoRow(last.model_input)
    /\ last.model_input.columns = <<"sentence_1", "sentence_2">>
    /\ last.outcome.error.type = "IndexError"
    /\ last.calls = << >>

(***************************************************************************)
(* C22: a load_context call that raises leaves the adapter as it was: an   *)
(* adapter without a model still has none, an adapter with a model keeps   *)
(* that model.  A load_context call that returns leaves the adapter with   *)
(* the model object newly built from the path in the context.  So the      *)
(* model a predict call runs on is always the one built by the latest      *)
(* load that succeeded.                                                    *)
(***************************************************************************)
C22_FailedLoadKeepsModel ==
    /\ (last.op = "load_context" /\ last.outcome.kind = "raise") =>
           /\ self = last.before
           /\ HasAttr(self, "model") <=> WasLoaded(last)
           /\ WasLoaded(last) => self.model = last.before.model /\ self.model.id = loads
    /\ (last.op = "load_context" /\ last.outcome.kind = "return") =>
           /\ HasAttr(self, "model")
           /\ self.model.id = loads
           /\ self.model.path = Get(last.context.artifacts, "model_path")
           /\ WasLoaded(last) => self.model # last.before.model
    /\ (last.op = "predict" /\ WasLoaded(last)) =>
           /\ last.before.model.id = loads
           /\ \A i \in 1..Len(last.calls) :
                  last.calls[i].fn = "encode" => last.calls[i].on = self.model.weights

C22_Witness ==
    /\ last.op = "load_context"
    /\ last.outcome.kind = "raise"
    /\ WasLoaded(last)
    /\ self.model.path = "/tmp/other_model"
    /\ self.model.id = 2
    /\ self = last.before

(***************************************************************************)
(* C23: an adapter on which no load_context has succeeded never returns a  *)
(* score and makes no delegate call.  An input that fails validation (or   *)
(* has no row 0) raises on it exactly what it raises on an adapter that    *)
(* has a model; an input that passes validation raises AttributeError at   *)
(* the first access to self.model.                                         *)
(***************************************************************************)
C23_ValidationWithoutModel ==
    /\ (last.op = "predict" /\ ~ WasLoaded(last)) =>
           /\ last.outcome.kind = "raise"
           /\ last.calls = << >>
           /\ WellFormed(last.model_input) <=>
                  last.outcome.error.type = "AttributeError"
    /\ (/\ prev.op = "predict" /\ last.op = "predict"
        /\ prev.model_input = last.model_input
        /\ ~ WellFormed(last.model_input)) =>
           /\ prev.outcome = last.outcome
           /\ last.outcome.kind = "raise"
           /\ prev.calls = << >> /\ last.calls = << >>

C23_Witness ==
    /\ prev.op = "predict" /\ last.op = "predict"
    /\ ~ WasLoaded(prev) /\ WasLoaded(last)
    /\ prev.model_input = last.model_input
    /\ WrongColumnCount(last.model_input)
    /\ prev.outcome = last.outcome
    /\ last.outcome.error.msg = TwoColumnsMsg

(***************************************************************************)
(* C24: two predict calls made on the same adapter with the same           *)
(* model_input and with different context and params arguments take the   *)
(* same branch (both are rejected or both reach the model), issue the      *)
(* same delegate calls as far as both get, and, when the delegate calls    *)
(* of the two behave alike, end in the same result or the same error.      *)
(***************************************************************************)
OkPattern(calls) == [i \in 1..Len(calls) |-> calls[i].ok]

OtherArguments(c1, c2) == c1.context # c2.context /\ c1.params # c2.params

C24_ContextParamsIgnored ==
    (/\ prev.op = "predict" /\ last.op = "predict"
     /\ prev.before = last.before
     /\ prev.model_input = last.model_input
     /\ OtherArguments(prev, last)) =>
        /\ (prev.calls = << >>) <=> (last.calls = << >>)
        /\ \/ IsPrefix(Issued(prev.calls), Issued(last.calls))
           \/ IsPrefix(Issued(last.calls), Issued(prev.calls))
        /\ OkPattern(prev.calls) = OkPattern(last.calls) =>
               /\ prev.calls = last.calls
               /\ prev.outcome = last.outcome

C24_Witness ==
    /\ prev.op = "predict" /\ last.op = "predict"
    /\ WasLoaded(prev) /\ prev.before = last.before
    /\ prev.model_input = last.model_input
    /\ prev.context = "PythonModelContext" /\ last.context = "None"
    /\ prev.params = "None" /\ last.params # "None"
    /\ prev.outcome.kind = "return"
    /\ last.outcome = prev.outcome

(***************************************************************************)
(* C25: the type of the input is tested first and its shape second.  An    *)
(* input that is neither a DataFrame nor a dict raises TypeError; a        *)
(* DataFrame whose column count is not 2 and a dict with a sentence        *)
(* absent or None raise ValueError; the three cases exclude one another,   *)
(* every error with one of the adapter's messages is a ValueError or a     *)
(* TypeError, and the only other errors of a call that made no delegate    *)
(* call are the IndexError of a frame without rows and the AttributeError  *)
(* of an adapter without a model.                                          *)
(***************************************************************************)
IsTypeMessage(msg) ==
    \E t \in {"list", "str", "NoneType", "dict", "DataFrame"} :
        msg = "Unexpected type for model_input: <class '" \o t
                 \o "'>. Must be either a Dict or a DataFrame."

C25_TwoErrorKinds ==
    last.op = "predict" =>
        LET x == last.model_input
            e == last.outcome.error
            checks == {c \in {"type", "columns", "keys"} :
                          \/ c = "type" /\ Unsupported(x)
                          \/ c = "columns" /\ WrongColumnCount(x)
                          \/ c = "keys" /\ DictLacksSentence(x)}
        IN  /\ Cardinality(checks) <= 1
            /\ Unsupported(x) =>
                   RaisedBeforeModel(last, "TypeError") /\ IsTypeMessage(e.msg)
            /\ WrongColumnCount(x) =>
                   RaisedBeforeModel(last, "ValueError") /\ e.msg = TwoColumnsMsg
            /\ DictLacksSentence(x) =>
                   RaisedBeforeModel(last, "ValueError") /\ e.msg = BothSentencesMsg
            /\ (e.msg \in AdapterMessages \/ IsTypeMessage(e.msg)) =>
                   /\ checks # {}
                   /\ e.type \in {"ValueError", "TypeError"}
            /\ (last.outcome.kind = "raise" /\ last.calls = << >> /\ checks = {}) =>
                   \/ e.type = "IndexError" /\ NoRow(x)
                   \/ e.type = "AttributeError" /\ ~ WasLoaded(last) /\ WellFormed(x)

C25_Witness ==
    /\ last.op = "predict"
    /\ WasLoaded(last)
    /\ last.model_input.type = "NoneType"
    /\ last.outcome.error.type = "TypeError"
    /\ last.calls = << >>

====
